---- MODULE Spec2Model ----
(***************************************************************************)
(* A model of finra-rs: the authenticated-client cache of Finra            *)
(* (src/src/finra.rs), the page stream of pager::all_results               *)
(* (src/src/pager.rs) and the paging cursor of the query                   *)
(* (src/src/query.rs).                                                     *)
(*                                                                         *)
(* All callers of one Finra run on one thread: ClientGetter holds an       *)
(* Arc<dyn Fn() -> ClientBuilder>, which is neither Send nor Sync, so      *)
(* Finra is neither.  A step of the model is one poll of a caller's future *)
(* from one suspension point (an .await that is Pending) to the next.      *)
(***************************************************************************)
EXTENDS Integers, Sequences, FiniteSets, TLC

(* ------------------------------ bounds -------------------------------- *)
NumCallers == 2
MaxCalls == 3
MaxTime == 2
\* The page requests the streams of one Finra send in all (Spec), and those
\* of a stream taken alone (PagerSpec).
MaxPageRequests == 1
MaxPages == 3

(* -------------------------- program constants ------------------------- *)
MAX_RESULTS_PER_PAGE == 1000
StatusOK == 200

OAUTH2_ENDPOINT == "oauth2/access_token?grant_type=client_credentials"
SHORT_INTEREST_ENDPOINT == "consolidatedShortInterest"
MOCK_SHORT_INTEREST_ENDPOINT == "consolidatedShortInterestMock"

Callers == 1..NumCallers
NoCaller == 0
\* Option::None of Option<Client>; the clients built are numbered from 1.
NoClient == 0
\* Option<T> of the other types.
NoneV == [opt |-> "None"]
Some(v) == [opt |-> "Some", some |-> v]

(* --------------------------- the environment -------------------------- *)
\* The two builds of the crate: with and without the `tokio` feature.
Features == {"tokio", "std"}

\* A JSON value under a key of the login response: absent, a non-string
\* (here a number), or a string, kept as its sequence of characters.
Absent == [json |-> "absent"]
JNumber(n) == [json |-> "number", n |-> n]
JString(chars) == [json |-> "string", chars |-> chars]

\* The expires_in values that parse, and those that do not.
GoodExpiresIn == { JString(<<"-", "1">>), JString(<<"0">>), JString(<<"1">>), JString(<<"2">>) }
BadExpiresIn == { Absent, JNumber(1), JString(<<"x">>), JString(<<>>) }

\* Access tokens are byte strings; 10 is a line feed, which no header value may hold.
GoodAccessToken == JString(<<97, 98, 99>>)
BadAccessTokens == { Absent, JNumber(7), JString(<<97, 10, 98>>) }

LoginStatuses == {200, 204, 401}

\* What the token endpoint can answer to one request.
LoginResponses ==
    { [kind |-> "transport_error"] }
    \cup { [kind |-> "http", status |-> st, body |-> "none"] : st \in LoginStatuses \ {StatusOK} }
    \cup { [kind |-> "http", status |-> StatusOK, body |-> "not_json"] }
    \cup { [kind |-> "http", status |-> StatusOK, body |-> "json",
            expires_in |-> e, access_token |-> GoodAccessToken] :
              e \in GoodExpiresIn \cup BadExpiresIn }
    \cup { [kind |-> "http", status |-> StatusOK, body |-> "json",
            expires_in |-> JString(<<"1">>), access_token |-> a] : a \in BadAccessTokens }
    \cup { [kind |-> "http", status |-> StatusOK, body |-> "json",
            expires_in |-> Absent, access_token |-> Absent] }

(* ------------------------------ errors -------------------------------- *)
HttpError == [err |-> "HttpError", msg |-> "", status |-> 0, detail |-> ""]
InvalidHeaders == [err |-> "InvalidHeaders", msg |-> "", status |-> 0, detail |-> ""]
CannotConstructHttpClient ==
    [err |-> "CannotConstructHttpClient", msg |-> "", status |-> 0, detail |-> ""]
CannotLogin(msg, status, detail) ==
    [err |-> "CannotLogin", msg |-> msg, status |-> status, detail |-> detail]

Ok(v) == [tag |-> "Ok", value |-> v]
Err(e) == [tag |-> "Err", error |-> e]
NoResult == [tag |-> "none"]

(* ------------------------------ LoginData ----------------------------- *)
\* client_builder is an Fn closure: an immutable callable.  Whether the
\* builder it returns builds is a property of the closure, the same at
\* every invocation.
LoginDatas ==
    [client_builder : {"builds", "fails"}, client_id : {"id"}, client_secret : {"secret"}]

Unauthenticated(ld) == [tag |-> "Unauthenticated", login_data |-> ld]
Authenticated(ld, cl, vu) ==
    [tag |-> "Authenticated", login_data |-> ld, client |-> cl, valid_until |-> vu]

(* ------------------------- parsing an integer ------------------------- *)
Digits == <<"0", "1", "2", "3", "4", "5", "6", "7", "8", "9">>
IsDigit(ch) == \E i \in 1..10 : Digits[i] = ch
DigitValue(ch) == (CHOOSE i \in 1..10 : Digits[i] = ch) - 1

RECURSIVE DecimalValue(_)
DecimalValue(chars) ==
    IF chars = <<>> THEN 0
    ELSE 10 * DecimalValue(SubSeq(chars, 1, Len(chars) - 1)) + DigitValue(chars[Len(chars)])

\* str::parse::<i64> and str::parse::<u64> on strings too short to overflow:
\* an optional sign ("-" only for the signed type), then at least one digit.
ParseInt(chars, signed) ==
    IF chars = <<>> THEN Err("cannot parse integer from empty string")
    ELSE LET sign == IF chars[1] = "-" /\ signed THEN "-"
                     ELSE IF chars[1] = "+" THEN "+" ELSE ""
             digits == IF sign = "" THEN chars ELSE Tail(chars)
         IN  IF digits = <<>> \/ \E i \in 1..Len(digits) : ~IsDigit(digits[i])
             THEN Err("invalid digit found in string")
             ELSE Ok(IF sign = "-" THEN 0 - DecimalValue(digits) ELSE DecimalValue(digits))

\* HeaderValue::from_str: visible ASCII, space and tab, and the bytes above 127.
IsValidHeaderValue(bytes) ==
    \A i \in 1..Len(bytes) : (bytes[i] >= 32 /\ bytes[i] # 127) \/ bytes[i] = 9

(* --------------------------- the variables ---------------------------- *)
VARIABLES
    feature,          \* the build: which Mutex guards client_getter
    clg,              \* Finra.client_getter: the ClientGetter
    holder,           \* the caller holding the Mutex, or NoCaller
    waiters,          \* tokio: the callers queued on the Mutex, first come first
    pc,               \* each caller's suspension point inside get_client
    result,           \* what get_client returned in the last step
    halted,           \* std: the thread is blocked in Mutex::lock for ever
    attempt,          \* the LoginData clone of the authentication in flight
    calls,            \* the calls of consolidated_short_interest made so far
    clients_built,    \* the bearer clients built so far
    sent,             \* the requests sent by the last step
    factory_invoked,  \* how often the last step invoked client_builder
    received,         \* the login response the last step consumed
    returned,         \* the caller whose get_client returned in the last step
    last_attempt,     \* how the last answered token request ended
    now,              \* OffsetDateTime::now_utc()
    stream,           \* each caller's record stream
    out,              \* what the API handed to a caller in the last step
    pages,            \* the record counts of the pages each stream has yielded
    totals,           \* the totals those pages reported
    page_requests,    \* the page requests sent so far
    page_limit,       \* the page requests the environment lets through
    page_received,    \* the page response the last step consumed
    use_mock_datasets,\* Finra.use_mock_datasets
    other             \* the second build, run in step with the first (SpecEq)

cache_vars == <<feature, clg, holder, waiters, pc, result, halted, attempt, calls,
                clients_built, sent, factory_invoked, received, returned, last_attempt>>
pager_vars == <<stream, out, pages, totals, page_requests, page_limit, page_received,
                use_mock_datasets>>
vars == <<cache_vars, now, pager_vars, other>>

(* ------------------- the client cache, as a value --------------------- *)
\* The cache of one Finra with its callers' positions.
Fin ==
    [feature |-> feature, clg |-> clg, holder |-> holder, waiters |-> waiters,
     pc |-> pc, result |-> result, halted |-> halted, attempt |-> attempt,
     calls |-> calls, clients_built |-> clients_built, sent |-> sent,
     factory_invoked |-> factory_invoked, received |-> received, returned |-> returned,
     last_attempt |-> last_attempt]

\* Finra::new: the cache starts Unauthenticated, the Mutex free.
new(feat, ld) ==
    [feature |-> feat, clg |-> Unauthenticated(ld), holder |-> NoCaller,
     waiters |-> <<>>, pc |-> [c \in Callers |-> "idle"],
     result |-> NoResult, halted |-> FALSE,
     attempt |-> NoneV, calls |-> 0, clients_built |-> 0, sent |-> <<>>,
     factory_invoked |-> 0, received |-> [kind |-> "none"], returned |-> NoCaller,
     last_attempt |-> "none"]

\* A step starts with nothing sent, built, received or returned.
begin(s) ==
    [s EXCEPT !.sent = <<>>, !.factory_invoked = 0, !.received = [kind |-> "none"],
              !.returned = NoCaller, !.result = NoResult]

\* The Mutex is free for a caller that asks for it.
MutantLockFree(s) == TRUE
LockFree(s) == s.holder = NoCaller

\* Mutex::lock.  tokio: the caller takes the free Mutex or queues behind the
\* holder.  std: the holder is a future suspended on this same thread, and
\* lock() on a Mutex the thread already holds does not return: it blocks the
\* thread for ever or panics.
lock(s, c) ==
    IF LockFree(s)
    THEN { [s EXCEPT !.holder = c, !.pc[c] = "locked"] }
    ELSE IF s.feature = "tokio"
    THEN { [s EXCEPT !.waiters = Append(@, c), !.pc[c] = "await_lock"] }
    ELSE { [s EXCEPT !.halted = TRUE, !.pc[c] = "lock_blocked"],
           [s EXCEPT !.pc[c] = "panicked"] }

\* Dropping the MutexGuard.  tokio hands the Mutex to the first waiter, which
\* is woken; std has no waiter on a single thread.
unlock(s, c) ==
    IF s.holder # c THEN s
    ELSE IF s.waiters = <<>> THEN [s EXCEPT !.holder = NoCaller]
    ELSE [s EXCEPT !.holder = Head(s.waiters), !.waiters = Tail(s.waiters),
                   !.pc[Head(s.waiters)] = "locked"]

\* get_client returns r to caller c: the guard is dropped on the way out, by
\* `?` as by the final Ok.
return(s, c, r) ==
    unlock([s EXCEPT !.pc[c] = "idle", !.result = r, !.returned = c,
                     !.attempt = NoneV], c)

\* ClientGetter::get_client
ClientGetter_get_client(g) ==
    IF g.tag = "Authenticated" THEN g.client ELSE NoClient

\* The token request: POST with the Basic header of id ":" secret.
login_req(ld) ==
    [to |-> OAUTH2_ENDPOINT, authorization |-> <<"Basic", ld.client_id, ":", ld.client_secret>>]

\* _authenticate_client up to its first suspension: the login client is
\* built from the factory and the token request is sent.
send_login(s, c, ld) ==
    LET s1 == [s EXCEPT !.factory_invoked = @ + 1] IN
    IF ld.client_builder # "builds"
    THEN return(s1, c, Err(HttpError))
    ELSE [s1 EXCEPT !.sent = Append(@, login_req(ld)), !.attempt = ld,
                    !.pc[c] = "await_login"]

\* The test of ensure_authenticated: the stored client is still valid.
MutantStillValid(g, t) == g.tag = "Authenticated" /\ ~(t < g.valid_until)
StillValid(g, t) == g.tag = "Authenticated" /\ t < g.valid_until

\* ensure_authenticated up to its first suspension, and on a valid client the
\* rest of get_client.
MutantEnsureSkipsFirstLogin(s, c, t) ==
    IF s.clg.tag = "Unauthenticated" \/ StillValid(s.clg, t)
    THEN return(s, c, Ok(ClientGetter_get_client(s.clg)))
    ELSE send_login(s, c, s.clg.login_data)
ensure_authenticated(s, c, t) ==
    IF StillValid(s.clg, t)
    THEN return(s, c, Ok(ClientGetter_get_client(s.clg)))
    ELSE send_login(s, c, s.clg.login_data)

\* Finra::get_client from the call to the first suspension or the return.
Finra_get_client(s, c, t) ==
    { IF s1.pc[c] = "locked" THEN ensure_authenticated(s1, c, t) ELSE s1 :
        s1 \in lock([begin(s) EXCEPT !.calls = @ + 1], c) }

\* A woken waiter is polled again with the Mutex in its hands.
resume(s, c, t) == ensure_authenticated(begin(s), c, t)

\* The status test of _authenticate_client.
MutantLoginStatusOk(status) == status \in 200..299
LoginStatusOk(status) == status = StatusOK

\* _authenticate_client from the response on: the token and the validity in
\* seconds, or the error.
_authenticate_client(resp) ==
    IF resp.kind = "transport_error" THEN Err(HttpError)
    ELSE IF ~LoginStatusOk(resp.status)
    THEN Err(CannotLogin("login attempt failed with status code", resp.status, ""))
    ELSE IF resp.body # "json" THEN Err(HttpError)
    ELSE IF resp.expires_in.json # "string"
    THEN Err(CannotLogin("the login response didn't contain the expiry of the token", 0, ""))
    ELSE LET valid_until == ParseInt(resp.expires_in.chars, TRUE) IN
    IF valid_until.tag = "Err"
    THEN Err(CannotLogin("could not parse the token expiry as a number", 0, valid_until.error))
    ELSE IF resp.access_token.json = "absent"
    THEN Err(CannotLogin("access_token not present in the login response", 0, ""))
    ELSE IF resp.access_token.json # "string"
    THEN Err(CannotLogin("access_token is not a string in the login response", 0, ""))
    ELSE IF ~IsValidHeaderValue(resp.access_token.chars) THEN Err(InvalidHeaders)
    ELSE Ok([bearer |-> resp.access_token.chars, validity |-> valid_until.value])

\* _authenticated_self after _authenticate_client succeeded: the new state is
\* built whole and swapped in.
MutantKeepsValidUntil(g, ld, cl, validity, t) ==
    Authenticated(ld, cl, IF g.tag = "Authenticated" THEN g.valid_until ELSE t + validity)
MutantForgetsLoginData(g, ld, cl, validity, t) ==
    Authenticated([ld EXCEPT !.client_secret = ""], cl, t + validity)
_authenticated_self(g, ld, cl, validity, t) ==
    Authenticated(ld, cl, t + validity)

\* A failed authentication: `?` returns the error and leaves *self alone.
MutantFailureForgets(s, c, e) ==
    return([s EXCEPT !.clg = Unauthenticated(s.clg.login_data)], c, Err(e))
login_failed(s, c, e) == return(s, c, Err(e))

\* The holder's token request is answered: the rest of _authenticate_client,
\* _authenticated_self, ensure_authenticated and get_client.
login_response(s, c, resp, t) ==
    LET s0 == [begin(s) EXCEPT !.received = resp]
        r == _authenticate_client(resp)
    IN  IF r.tag = "Err" THEN login_failed([s0 EXCEPT !.last_attempt = "failed"], c, r.error)
        ELSE LET cl == s0.clients_built + 1
                 g == _authenticated_self(s0.clg, s0.attempt, cl, r.value.validity, t)
                 s1 == [s0 EXCEPT !.factory_invoked = @ + 1, !.clients_built = cl, !.clg = g,
                                  !.last_attempt = "succeeded"]
             IN  return(s1, c, Ok(ClientGetter_get_client(g)))

SetFin(s) ==
    /\ feature' = s.feature
    /\ clg' = s.clg
    /\ holder' = s.holder
    /\ waiters' = s.waiters
    /\ pc' = s.pc
    /\ result' = s.result
    /\ halted' = s.halted
    /\ attempt' = s.attempt
    /\ calls' = s.calls
    /\ clients_built' = s.clients_built
    /\ sent' = s.sent
    /\ factory_invoked' = s.factory_invoked
    /\ received' = s.received
    /\ returned' = s.returned
    /\ last_attempt' = s.last_attempt

SetFinInit(s) ==
    /\ feature = s.feature
    /\ clg = s.clg
    /\ holder = s.holder
    /\ waiters = s.waiters
    /\ pc = s.pc
    /\ result = s.result
    /\ halted = s.halted
    /\ attempt = s.attempt
    /\ calls = s.calls
    /\ clients_built = s.clients_built
    /\ sent = s.sent
    /\ factory_invoked = s.factory_invoked
    /\ received = s.received
    /\ returned = s.returned
    /\ last_attempt = s.last_attempt

(* ------------------------------ the query ----------------------------- *)
\* ConsolidatedShortInterestQuery::new
ConsolidatedShortInterestQuery_new(fields, date_range, symbol) ==
    [fields |-> fields, date_range |-> date_range, symbol |-> symbol,
     limit |-> MAX_RESULTS_PER_PAGE, offset |-> 0]

\* The arguments the callers pass to ConsolidatedShortInterestQuery::new.
QueryArgs ==
    { <<Some(<<"symbolCode", "settlementDate">>),
        Some([start |-> <<2024, 1, 1>>, end |-> <<2024, 2, 1>>]), Some("BDRBF")>> }

limit(q) == q.limit
offset(q) == q.offset

\* Query::move_cursor
MutantMoveCursorByLimit(q, by) == [q EXCEPT !.offset = @ + q.limit]
move_cursor(q, by) == [q EXCEPT !.offset = @ + by]

Count(opt) == IF opt = NoneV THEN 0 ELSE 1

\* impl Serialize for ConsolidatedShortInterestQuery: the size hint and the
\* entries of the map, in the order they are written.
MutantSerializeNullSymbol(q) ==
    [len |-> 2 + Count(q.fields) + Count(q.date_range) + Count(q.date_range),
     entries |->
        (IF q.fields # NoneV THEN << <<"fields", q.fields.some>> >> ELSE <<>>)
        \o (IF q.date_range # NoneV
            THEN << <<"dateRangeFilters",
                      << [fieldName |-> "settlementDate",
                          startDate |-> q.date_range.some.start,
                          endDate |-> q.date_range.some.end] >> >> >>
            ELSE <<>>)
        \o (IF q.symbol # NoneV
            THEN << <<"compareFilters",
                      << [fieldName |-> "symbolCode", fieldValue |-> q.symbol.some,
                          compareType |-> "EQUAL"] >> >> >>
            ELSE << <<"compareFilters", <<>> >> >>)
        \o << <<"limit", q.limit>>, <<"offset", q.offset>> >>]
serialize(q) ==
    [len |-> 2 + Count(q.fields) + Count(q.date_range) + Count(q.date_range),
     entries |->
        (IF q.fields # NoneV THEN << <<"fields", q.fields.some>> >> ELSE <<>>)
        \o (IF q.date_range # NoneV
            THEN << <<"dateRangeFilters",
                      << [fieldName |-> "settlementDate",
                          startDate |-> q.date_range.some.start,
                          endDate |-> q.date_range.some.end] >> >> >>
            ELSE <<>>)
        \o (IF q.symbol # NoneV
            THEN << <<"compareFilters",
                      << [fieldName |-> "symbolCode", fieldValue |-> q.symbol.some,
                          compareType |-> "EQUAL"] >> >> >>
            ELSE <<>>)
        \o << <<"limit", q.limit>>, <<"offset", q.offset>> >>]

(* --------------------------- the data endpoint ------------------------ *)
NoHeader == [header |-> "absent"]
Header(chars) == [header |-> "present", chars |-> chars]

RecordTotalValues ==
    { NoHeader, Header(<<"x">>), Header(<<"2">>) }

\* The page bodies the data endpoint answers with: each row decodes into a
\* record or does not.
Bodies ==
    { <<>>, <<"record">>, <<"malformed">>, <<"record", "record">>,
      <<"record", "malformed">>, <<"malformed", "record">> }

PageStatuses == {200, 204, 304, 404}

\* What the data endpoint can answer to one page request.
PageResponses ==
    { [kind |-> "transport_error"] }
    \cup { [kind |-> "http", status |-> st, record_total |-> NoHeader, body |-> "none"] :
             st \in PageStatuses \ {StatusOK} }
    \cup { [kind |-> "http", status |-> StatusOK, record_total |-> NoHeader,
            body |-> "unreadable"] }
    \cup { [kind |-> "http", status |-> StatusOK, record_total |-> h, body |-> "text",
            rows |-> rows] : h \in RecordTotalValues, rows \in Bodies }

(* ------------------------------ the pager ----------------------------- *)
NoStream == [tag |-> "none"]
Calling(q) == [tag |-> "calling", query |-> q]

NoOutput == [caller |-> NoCaller]
Output(c, v) == [caller |-> c, value |-> v]

Pending == [tag |-> "pending"]
End == [tag |-> "end"]
Record(v) == [tag |-> "record", value |-> v]
Stream == [tag |-> "stream"]

PagerState(client, url, query, end) ==
    [client |-> client, url |-> url, query |-> query, end |-> end]

\* pager::all_results with the map_ok and try_flatten of
\* consolidated_short_interest around it: the unfold holds the state and no
\* future, the flattener no page.  Nothing is sent.
all_results(client, url, query) ==
    [tag |-> "stream", state |-> Some(PagerState(client, url, query, FALSE)),
     fut |-> NoneV, next |-> <<>>]

\* The page request of the unfold step.
page_req(st) ==
    [to |-> st.url, client |-> st.client, accept |-> "text/plain",
     content_type |-> "application/json", body |-> serialize(st.query)]

\* Response::error_for_status
IsErrorStatus(status) == status \in 400..599

\* The Record-Total header as a u64, 0 when it is absent or does not parse.
MutantRecordTotalUnknown(h) ==
    IF h.header = "absent" THEN MAX_RESULTS_PER_PAGE
    ELSE LET v == ParseInt(h.chars, FALSE) IN
         IF v.tag = "Ok" THEN v.value ELSE MAX_RESULTS_PER_PAGE
record_total(h) ==
    IF h.header = "absent" THEN 0
    ELSE LET v == ParseInt(h.chars, FALSE) IN IF v.tag = "Ok" THEN v.value ELSE 0

\* rdr.deserialize().flatten().collect(): the rows that decode, in order.
decode(rows) == SelectSeq(rows, LAMBDA r : r # "malformed")

\* The unfold step from the response on.
MutantEndWhenBelow(st, resp) ==
    IF resp.kind = "transport_error" THEN Err(HttpError)
    ELSE IF IsErrorStatus(resp.status) THEN Err(HttpError)
    ELSE IF resp.status # StatusOK THEN Ok(NoneV)
    ELSE IF resp.body = "unreadable" THEN Err(HttpError)
    ELSE LET new_query == move_cursor(st.query, Len(decode(resp.rows)))
         IN  Ok(Some([items |-> decode(resp.rows),
                      state |-> PagerState(st.client, st.url, new_query,
                                  record_total(resp.record_total) < offset(new_query))]))
MutantNoContentIsError(st, resp) ==
    IF resp.kind = "transport_error" THEN Err(HttpError)
    ELSE IF resp.status # StatusOK THEN Err(HttpError)
    ELSE IF resp.body = "unreadable" THEN Err(HttpError)
    ELSE LET new_query == move_cursor(st.query, Len(decode(resp.rows)))
         IN  Ok(Some([items |-> decode(resp.rows),
                      state |-> PagerState(st.client, st.url, new_query,
                                  record_total(resp.record_total) <= offset(new_query))]))
MutantErrorSwallowed(st, resp) ==
    IF resp.kind = "transport_error" THEN Err(HttpError)
    ELSE IF IsErrorStatus(resp.status) THEN Ok(Some([items |-> <<>>, state |-> st]))
    ELSE IF resp.status # StatusOK THEN Ok(NoneV)
    ELSE IF resp.body = "unreadable" THEN Err(HttpError)
    ELSE LET new_query == move_cursor(st.query, Len(decode(resp.rows)))
         IN  Ok(Some([items |-> decode(resp.rows),
                      state |-> PagerState(st.client, st.url, new_query,
                                  record_total(resp.record_total) <= offset(new_query))]))
MutantNextStateNewClient(st, resp) ==
    IF resp.kind = "transport_error" THEN Err(HttpError)
    ELSE IF IsErrorStatus(resp.status) THEN Err(HttpError)
    ELSE IF resp.status # StatusOK THEN Ok(NoneV)
    ELSE IF resp.body = "unreadable" THEN Err(HttpError)
    ELSE LET new_query == move_cursor(st.query, Len(decode(resp.rows)))
         IN  Ok(Some([items |-> decode(resp.rows),
                      state |-> PagerState(NoClient, st.url, new_query,
                                  record_total(resp.record_total) <= offset(new_query))]))
unfold_response(st, resp) ==
    IF resp.kind = "transport_error" THEN Err(HttpError)
    ELSE IF IsErrorStatus(resp.status) THEN Err(HttpError)
    ELSE IF resp.status # StatusOK THEN Ok(NoneV)
    ELSE LET total == record_total(resp.record_total) IN
         IF resp.body = "unreadable" THEN Err(HttpError)
         ELSE LET items == decode(resp.rows)
                  new_query == move_cursor(st.query, Len(items))
                  end == total <= offset(new_query)
              IN  Ok(Some([items |-> items,
                           state |-> PagerState(st.client, st.url, new_query, end)]))

\* TryUnfold::poll_next with no future pending: the unfold step up to its
\* first suspension.
MutantPollUnfoldIgnoresEnd(sm) ==
    IF sm.state = NoneV THEN [stream |-> sm, out |-> End, request |-> NoneV]
    ELSE [stream |-> [sm EXCEPT !.state = NoneV, !.fut = Some(sm.state.some)],
          out |-> Pending, request |-> Some(page_req(sm.state.some))]
poll_unfold(sm) ==
    IF sm.state = NoneV THEN [stream |-> sm, out |-> End, request |-> NoneV]
    ELSE LET st == sm.state.some IN
         IF st.end
         THEN [stream |-> [sm EXCEPT !.state = NoneV], out |-> End, request |-> NoneV]
         ELSE [stream |-> [sm EXCEPT !.state = NoneV, !.fut = Some(st)],
               out |-> Pending, request |-> Some(page_req(st))]

\* TryFlatten::poll_next: the next record of the current page, or else the
\* next page.
MutantPollNextPrefetch(sm) ==
    IF Len(sm.next) > 1
    THEN [stream |-> [sm EXCEPT !.next = Tail(@)], out |-> Record(Head(sm.next)),
          request |-> NoneV]
    ELSE IF Len(sm.next) = 1
    THEN [stream |-> poll_unfold([sm EXCEPT !.next = <<>>]).stream,
          out |-> Record(Head(sm.next)),
          request |-> poll_unfold([sm EXCEPT !.next = <<>>]).request]
    ELSE poll_unfold(sm)
poll_next(sm) ==
    IF sm.next # <<>>
    THEN [stream |-> [sm EXCEPT !.next = Tail(@)], out |-> Record(Head(sm.next)),
          request |-> NoneV]
    ELSE poll_unfold(sm)

\* The pending page request is answered and the poll goes on.
poll_response(sm, resp) ==
    LET r == unfold_response(sm.fut.some, resp)
        sm0 == [sm EXCEPT !.fut = NoneV]
    IN  IF r.tag = "Err" THEN [stream |-> sm0, out |-> r, request |-> NoneV]
        ELSE IF r.value = NoneV THEN [stream |-> sm0, out |-> End, request |-> NoneV]
        ELSE poll_next([sm0 EXCEPT !.state = Some(r.value.some.state),
                                   !.next = r.value.some.items])

\* The records of the page a response yields, when it yields one.
YieldedPage(sm, resp) ==
    LET r == unfold_response(sm.fut.some, resp)
    IN  IF r.tag = "Ok" /\ r.value # NoneV THEN << Len(r.value.some.items) >> ELSE <<>>

\* The total that page reported, as the unfold step read it.
YieldedTotal(sm, resp) ==
    LET r == unfold_response(sm.fut.some, resp)
    IN  IF r.tag = "Ok" /\ r.value # NoneV
        THEN << record_total(resp.record_total) >> ELSE <<>>

(* ------------------------------ the steps ----------------------------- *)
endpoint(mock) ==
    IF mock THEN MOCK_SHORT_INTEREST_ENDPOINT ELSE SHORT_INTEREST_ENDPOINT

CanCall(s, c) == s.pc[c] = "idle" /\ ~s.halted /\ s.calls < MaxCalls
CanResume(s, c) == s.pc[c] = "locked" /\ ~s.halted
CanReceive(s, c) == s.pc[c] = "await_login" /\ ~s.halted

\* The callers that consume the stream they are handed; the others drop it
\* at once.
Consumers == {1}

\* consolidated_short_interest around get_client: when get_client has
\* returned, the error is passed on or the stream is made.
consolidated_short_interest(s, c, q) ==
    /\ pages' = [pages EXCEPT ![c] = <<>>]
    /\ totals' = [totals EXCEPT ![c] = <<>>]
    /\ page_received' = [kind |-> "none"]
    /\ IF s.returned # c
       THEN stream' = [stream EXCEPT ![c] = Calling(q)] /\ out' = NoOutput
       ELSE IF s.result.tag = "Err"
       THEN stream' = [stream EXCEPT ![c] = NoStream] /\ out' = Output(c, s.result)
       ELSE IF s.result.value = NoClient
       THEN stream' = [stream EXCEPT ![c] = NoStream]
            /\ out' = Output(c, Err(CannotConstructHttpClient))
       ELSE stream' = [stream EXCEPT
                         ![c] = IF c \in Consumers
                                THEN all_results(s.result.value, endpoint(use_mock_datasets), q)
                                ELSE NoStream]
            /\ out' = Output(c, Stream)

\* A caller calls consolidated_short_interest.
Call(c) ==
    /\ CanCall(Fin, c)
    /\ stream[c].tag \in {"none", "stream"}
    /\ stream[c].tag = "stream" => stream[c].fut = NoneV
    /\ \E a \in QueryArgs, s \in Finra_get_client(Fin, c, now) :
          /\ SetFin(s)
          /\ consolidated_short_interest(
                s, c, ConsolidatedShortInterestQuery_new(a[1], a[2], a[3]))
    /\ UNCHANGED <<now, page_requests, page_limit, use_mock_datasets, other>>

\* A caller that was handed the Mutex is polled.
Resume(c) ==
    /\ CanResume(Fin, c)
    /\ LET s == resume(Fin, c, now)
       IN  SetFin(s) /\ consolidated_short_interest(s, c, stream[c].query)
    /\ UNCHANGED <<now, page_requests, page_limit, use_mock_datasets, other>>

\* The token endpoint answers the request in flight.
LoginResponse(c) ==
    /\ CanReceive(Fin, c)
    /\ \E resp \in LoginResponses :
          LET s == login_response(Fin, c, resp, now)
          IN  SetFin(s) /\ consolidated_short_interest(s, c, stream[c].query)
    /\ UNCHANGED <<now, page_requests, page_limit, use_mock_datasets, other>>

\* The clock advances.
Tick ==
    /\ now < MaxTime
    /\ now' = now + 1
    /\ SetFin(begin(Fin))
    /\ out' = NoOutput
    /\ page_received' = [kind |-> "none"]
    /\ UNCHANGED <<stream, pages, totals, page_requests, page_limit, use_mock_datasets, other>>

\* What a step of a stream leaves of the cache: nothing but its log of the step.
PagerStep(requests) ==
    /\ SetFin([begin(Fin) EXCEPT !.sent = requests])
    /\ UNCHANGED <<now, page_limit, use_mock_datasets, other>>

Requests(p) == IF p.request = NoneV THEN <<>> ELSE << p.request.some >>

\* The consumer pulls the next element of its stream.
Pull(c) ==
    /\ ~halted /\ pc[c] = "idle"
    /\ stream[c].tag = "stream" /\ stream[c].fut = NoneV
    /\ LET p == poll_next(stream[c]) IN
          /\ p.request # NoneV => page_requests < page_limit
          /\ stream' = [stream EXCEPT ![c] = p.stream]
          /\ out' = Output(c, p.out)
          /\ page_requests' = page_requests + Len(Requests(p))
          /\ pages' = pages
          /\ totals' = totals
          /\ page_received' = [kind |-> "none"]
          /\ PagerStep(Requests(p))

\* The data endpoint answers a stream's page request.
PageResponse(c) ==
    /\ ~halted /\ pc[c] = "idle"
    /\ stream[c].tag = "stream" /\ stream[c].fut # NoneV
    /\ \E resp \in PageResponses :
          LET p == poll_response(stream[c], resp) IN
          /\ p.request # NoneV => page_requests < page_limit
          /\ stream' = [stream EXCEPT ![c] = p.stream]
          /\ out' = Output(c, p.out)
          /\ page_requests' = page_requests + Len(Requests(p))
          /\ pages' = [pages EXCEPT ![c] = @ \o YieldedPage(stream[c], resp)]
          /\ totals' = [totals EXCEPT ![c] = @ \o YieldedTotal(stream[c], resp)]
          /\ page_received' = resp
          /\ PagerStep(Requests(p))

\* The consumer drops its stream.
Drop(c) ==
    /\ ~halted /\ pc[c] = "idle"
    /\ stream[c].tag = "stream"
    /\ stream' = [stream EXCEPT ![c] = NoStream]
    /\ out' = NoOutput
    /\ page_received' = [kind |-> "none"]
    /\ UNCHANGED <<pages, totals, page_requests>>
    /\ PagerStep(<<>>)

Init ==
    /\ \E feat \in Features, ld \in LoginDatas : SetFinInit(new(feat, ld))
    /\ now = 0
    /\ stream = [c \in Callers |-> NoStream]
    /\ out = NoOutput
    /\ pages = [c \in Callers |-> <<>>]
    /\ totals = [c \in Callers |-> <<>>]
    /\ page_requests = 0
    /\ page_limit = MaxPageRequests
    /\ page_received = [kind |-> "none"]
    /\ use_mock_datasets = TRUE
    /\ other = NoneV

Next ==
    \/ \E c \in Callers : Call(c)
    \/ \E c \in Callers : Resume(c)
    \/ \E c \in Callers : LoginResponse(c)
    \/ Tick
    \/ \E c \in Callers : Pull(c)
    \/ \E c \in Callers : PageResponse(c)
    \/ \E c \in Callers : Drop(c)

Spec == Init /\ [][Next]_vars

(* ----------------------- one stream taken alone ----------------------- *)
Options(S) == { NoneV } \cup { Some(v) : v \in S }

\* The queries a caller can make.
Queries ==
    { ConsolidatedShortInterestQuery_new(f, d, s) :
        f \in Options({ <<"symbolCode", "settlementDate">> }),
        d \in Options({ [start |-> <<2024, 1, 1>>, end |-> <<2024, 2, 1>>] }),
        s \in Options({ "BDRBF" }) }

\* The first call of consolidated_short_interest has been answered with a
\* token good for one second and has handed caller 1 its stream.
InitPager ==
    \E feat \in Features, q \in Queries :
       LET ld == [client_builder |-> "builds", client_id |-> "id", client_secret |-> "secret"]
           resp == [kind |-> "http", status |-> StatusOK, body |-> "json",
                    expires_in |-> JString(<<"1">>), access_token |-> GoodAccessToken]
       IN  \E s1 \in Finra_get_client(new(feat, ld), 1, 0) :
              LET s2 == login_response(s1, 1, resp, 0) IN
              /\ SetFinInit(s2)
              /\ now = 0
              /\ use_mock_datasets = TRUE
              /\ stream = [c \in Callers |->
                             IF c = 1
                             THEN all_results(s2.result.value, endpoint(TRUE), q)
                             ELSE NoStream]
              /\ out = Output(1, Stream)
              /\ pages = [c \in Callers |-> <<>>]
              /\ totals = [c \in Callers |-> <<>>]
              /\ page_requests = 0
              /\ page_limit = MaxPages
              /\ page_received = [kind |-> "none"]
              /\ other = NoneV

NextPager ==
    \/ \E c \in Consumers : Pull(c)
    \/ \E c \in Consumers : PageResponse(c)
    \/ \E c \in Consumers : Drop(c)

PagerSpec == InitPager /\ [][NextPager]_vars

(* ------------------- the two builds, run in step ---------------------- *)
\* Both builds take the same step when both can; a build that cannot take it
\* stays where it is.
InStep(can_a, next_a, can_b, next_b) ==
    /\ can_a \/ can_b
    /\ \E a \in (IF can_a THEN next_a ELSE { begin(Fin) }),
          b \in (IF can_b THEN next_b ELSE { begin(other) }) :
          SetFin(a) /\ other' = b

EqCall(c) ==
    /\ InStep(CanCall(Fin, c), Finra_get_client(Fin, c, now),
              CanCall(other, c), Finra_get_client(other, c, now))
    /\ UNCHANGED <<now, pager_vars>>

EqResume(c) ==
    /\ InStep(CanResume(Fin, c), { resume(Fin, c, now) },
              CanResume(other, c), { resume(other, c, now) })
    /\ UNCHANGED <<now, pager_vars>>

EqLoginResponse(c) ==
    /\ \E resp \in LoginResponses :
          InStep(CanReceive(Fin, c), { login_response(Fin, c, resp, now) },
                 CanReceive(other, c), { login_response(other, c, resp, now) })
    /\ UNCHANGED <<now, pager_vars>>

EqTick ==
    /\ now < MaxTime
    /\ now' = now + 1
    /\ SetFin(begin(Fin))
    /\ other' = begin(other)
    /\ UNCHANGED pager_vars

InitEq ==
    /\ \E ld \in LoginDatas : SetFinInit(new("tokio", ld)) /\ other = new("std", ld)
    /\ now = 0
    /\ stream = [c \in Callers |-> NoStream]
    /\ out = NoOutput
    /\ pages = [c \in Callers |-> <<>>]
    /\ totals = [c \in Callers |-> <<>>]
    /\ page_requests = 0
    /\ page_limit = MaxPageRequests
    /\ page_received = [kind |-> "none"]
    /\ use_mock_datasets = TRUE

NextEq ==
    \/ \E c \in Callers : EqCall(c)
    \/ \E c \in Callers : EqResume(c)
    \/ \E c \in Callers : EqLoginResponse(c)
    \/ EqTick

SpecEq == InitEq /\ [][NextEq]_vars

(* ----------------------------- properties ----------------------------- *)
TokenRequests(reqs) == SelectSeq(reqs, LAMBDA r : r.to = OAUTH2_ENDPOINT)
DataRequests(reqs) == SelectSeq(reqs, LAMBDA r : r.to # OAUTH2_ENDPOINT)

\* In this step caller c's get_client takes the Mutex and runs
\* ensure_authenticated: c calls with the Mutex free, or c is polled after the
\* Mutex was handed to it.
Entered(c) ==
    \/ pc[c] = "locked" /\ pc'[c] # "locked"
    \/ /\ pc[c] = "idle" /\ holder = NoCaller /\ calls' = calls + 1
       /\ (returned' = c \/ pc'[c] = "await_login")

\* The login responses that carry a token and an expiry, and their expiry.
GoodLogin(resp) ==
    /\ resp.kind = "http" /\ resp.status = 200 /\ resp.body = "json"
    /\ resp.expires_in \in GoodExpiresIn /\ resp.access_token = GoodAccessToken
FailedLogin(resp) == resp.kind # "none" /\ ~GoodLogin(resp)
ExpirySeconds(resp) ==
    CASE resp.expires_in = JString(<<"-", "1">>) -> 0 - 1
      [] resp.expires_in = JString(<<"0">>) -> 0
      [] resp.expires_in = JString(<<"1">>) -> 1
      [] resp.expires_in = JString(<<"2">>) -> 2

\* C1: a get_client call that finds the cache Authenticated with
\* now < valid_until sends no token request, does not invoke the client
\* factory, leaves the ClientState as it is and returns, in the same step, the
\* stored client, which is the one the most recent successful authentication
\* built.
C1_CacheHit ==
    [][\A c \in Callers :
          (Entered(c) /\ clg.tag = "Authenticated" /\ now < clg.valid_until)
          => /\ sent' = <<>>
             /\ factory_invoked' = 0
             /\ clg' = clg
             /\ returned' = c
             /\ result' = Ok(clg.client)
             /\ clg.client = clients_built]_vars

\* A second call was answered from the cache: a client was returned by a step
\* that invoked no factory and sent nothing, after one authentication.
C1_Witness ==
    /\ returned # NoCaller /\ result.tag = "Ok" /\ result.value = 1
    /\ factory_invoked = 0 /\ sent = <<>> /\ calls >= 2 /\ clients_built = 1

\* C2: whenever get_client returns a client, the time of the return is
\* strictly before the valid_until stored with that client, whatever expiry
\* the token endpoint reported.
C2_ReturnedBeforeExpiry ==
    (returned # NoCaller /\ result.tag = "Ok")
    => (clg.tag = "Authenticated" /\ now < clg.valid_until)

\* C3: when the token endpoint's answer is a failure (transport error, status
\* other than 200, or a body without a usable expires_in and access_token),
\* the ClientState after the step is the one before it, get_client returns an
\* error to the caller that held the Mutex, and the stored state is not valid;
\* and the next get_client that runs after a failed attempt sends a token
\* request.
C3_FailureNotCached ==
    [][/\ FailedLogin(received')
          => /\ clg' = clg
             /\ returned' = holder
             /\ result'.tag = "Err"
             /\ ~(clg'.tag = "Authenticated" /\ now' < clg'.valid_until)
       /\ \A c \in Callers :
             (Entered(c) /\ last_attempt = "failed")
             => /\ TokenRequests(sent') = << login_req(clg.login_data) >>
                /\ pc'[c] = "await_login"]_vars

\* After a failed attempt a caller has a new token request in flight.
C3_Witness ==
    /\ last_attempt = "failed"
    /\ \E c \in Callers : pc[c] = "await_login"
    /\ TokenRequests(sent) # <<>>

\* C4: at most one token request is in flight, and its sender holds the
\* Mutex; a caller that calls while an authentication is in flight sends
\* nothing, invokes no factory, gets no result and leaves the ClientState
\* alone, and no caller other than the holder comes to wait for a token
\* response.
C4_OneFlight ==
    /\ [](/\ Cardinality({ c \in Callers : pc[c] = "await_login" }) <= 1
          /\ \A c \in Callers : pc[c] = "await_login" => holder = c)
    /\ [][((\E d \in Callers : pc[d] = "await_login") /\ calls' = calls + 1)
          => /\ sent' = <<>>
             /\ factory_invoked' = 0
             /\ returned' = NoCaller
             /\ clg' = clg
             /\ \A c \in Callers : pc'[c] = "await_login" => pc[c] = "await_login"]_vars

\* A caller waits for the Mutex while another's token request is in flight.
C4_Witness ==
    \E c, d \in Callers : pc[c] = "await_login" /\ pc[d] = "await_lock"

\* C5: no reachable state has the callers stuck: whenever a call of
\* get_client is in progress, a step of some caller is possible (the answer of
\* the token endpoint can be taken, or a waiter handed the Mutex can run).
C5_CallersProgress ==
    (\E c \in Callers : pc[c] # "idle")
    => ENABLED (\E c \in Callers : Resume(c) \/ LoginResponse(c))

\* C6: the two builds, given the same calls, clock readings and token
\* endpoint answers, send the same requests, return the same results to the
\* same callers and have the same callers inside get_client.
Observable(s) ==
    [sent |-> s.sent, returned |-> s.returned, result |-> s.result,
     inside |-> { c \in Callers : s.pc[c] # "idle" }]
C6_BuildsAgree == Observable(Fin) = Observable(other)

\* C7: a get_client call that finds the cache Authenticated with
\* now >= valid_until sends exactly one token request, made from the stored
\* login parameters, and changes nothing yet; the answer's step sends nothing
\* more; and the ClientState changes only in the step of a good answer, where
\* the client and valid_until are replaced together by the newly built client
\* and now + expires_in, and that client is the one returned.
C7_RenewalIsAtomic ==
    /\ [][\A c \in Callers :
            (Entered(c) /\ clg.tag = "Authenticated" /\ ~(now < clg.valid_until))
            => /\ sent' = << login_req(clg.login_data) >>
               /\ pc'[c] = "await_login"
               /\ clg' = clg]_vars
    /\ [][received'.kind # "none" => sent' = <<>>]_vars
    /\ [][clg' # clg
            => /\ GoodLogin(received')
               /\ clg' = Authenticated(clg.login_data, clients_built + 1,
                                       now + ExpirySeconds(received'))
               /\ result' = Ok(clients_built + 1)
               /\ returned' = holder]_vars

\* An expired client has been replaced: the second client built is stored
\* and returned.
C7_Witness ==
    /\ clg.tag = "Authenticated" /\ clg.client = 2
    /\ returned # NoCaller /\ result = Ok(2) /\ GoodLogin(received)

\* C8: the ClientState starts Unauthenticated; it changes only in the step of
\* a good answer of the token endpoint, and then to Authenticated; an
\* Authenticated state is never followed by an Unauthenticated one; and the
\* login parameters never change.
C8_StateMachine ==
    /\ clg.tag = "Unauthenticated"
    /\ [][/\ clg' # clg => (GoodLogin(received') /\ clg'.tag = "Authenticated")
          /\ clg.tag = "Authenticated" => clg'.tag = "Authenticated"
          /\ clg'.login_data = clg.login_data]_vars

\* The state went from Authenticated to Authenticated with a new payload.
C8_Witness ==
    clg.tag = "Authenticated" /\ clients_built >= 2 /\ clg.client = clients_built

\* C9: when the token endpoint answers with a status other than 200,
\* consolidated_short_interest returns CannotLogin with that status to the
\* caller in the same step, which sends no request (none to the data endpoint,
\* no second token request), builds no client and hands the caller no stream.
C9_LoginStatus ==
    [][(received'.kind = "http" /\ received'.status # 200)
          => /\ out' = Output(holder,
                         Err(CannotLogin("login attempt failed with status code",
                                         received'.status, "")))
             /\ sent' = <<>>
             /\ factory_invoked' = 0
             /\ clients_built' = clients_built
             /\ pc'[holder] = "idle"
             /\ stream'[holder] = NoStream
             /\ page_requests' = page_requests]_vars

\* A call has failed on a 401.
C9_Witness ==
    /\ received.kind = "http" /\ received.status = 401
    /\ out.caller # NoCaller /\ out.value.tag = "Err"
    /\ out.value.error.err = "CannotLogin" /\ out.value.error.status = 401

RECURSIVE Sum(_)
Sum(ns) == IF ns = <<>> THEN 0 ELSE Head(ns) + Sum(Tail(ns))

\* The offset the stream's next page request carries: that of the query its
\* unfold holds, or of the request in flight.
HasCursor(sm) == sm.tag = "stream" /\ (sm.state # NoneV \/ sm.fut # NoneV)
Cursor(sm) ==
    IF sm.state # NoneV THEN sm.state.some.query.offset ELSE sm.fut.some.query.offset
\* The offset entry of a page request's body.
RequestOffset(req) ==
    LET e == req.body.entries IN e[Len(e)][2]
Records(rows) == Cardinality({ i \in 1..Len(rows) : rows[i] = "record" })

\* C10: the offset of a stream's next page request is the sum of the record
\* counts of the pages it has yielded, and every page request sent carries
\* it; the offset never decreases, and a page moves it by the number of its
\* rows that decoded into records.
C10_OffsetIsRecordsYielded ==
    /\ [](\A c \in Callers :
            /\ HasCursor(stream[c]) => Cursor(stream[c]) = Sum(pages[c])
            /\ (out.caller = c /\ DataRequests(sent) # <<>>)
               => /\ Len(DataRequests(sent)) = 1
                  /\ RequestOffset(sent[1]) = Sum(pages[c]))
    /\ [][\A c \in Callers :
            (HasCursor(stream[c]) /\ HasCursor(stream'[c]))
            => /\ Cursor(stream'[c]) >= Cursor(stream[c])
               /\ (page_received'.kind = "http" /\ page_received'.status = 200
                   /\ page_received'.body = "text")
                  => Cursor(stream'[c]) = Cursor(stream[c]) + Records(page_received'.rows)
               /\ page_received'.kind = "none"
                  => Cursor(stream'[c]) = Cursor(stream[c])]_vars

\* After a page that yielded one record and a page of rows none of which
\* decoded, a third page request goes out with the offset 1.
C10_Witness ==
    \E c \in Callers :
       /\ pages[c] = << 1, 0 >>
       /\ page_received.kind = "http" /\ page_received.body = "text"
       /\ page_received.rows = << "malformed" >>
       /\ DataRequests(sent) # <<>> /\ RequestOffset(sent[1]) = 1

\* The response a step consumed is a page: a 200 whose body could be read.
IsPage(resp) == resp.kind = "http" /\ resp.status = StatusOK /\ resp.body = "text"
\* The total a page reports: the Record-Total header read as an unsigned
\* decimal number, 0 when there is none or it is not one.
ReportedTotal(resp) ==
    IF resp.record_total = Header(<<"2">>) THEN 2 ELSE 0
\* The stream's unfold holds a state whose end flag is set.
EndFlagSet(sm) == sm.tag = "stream" /\ sm.state # NoneV /\ sm.state.some.end
\* The stream's unfold holds neither a state nor a request: it is over.
Finished(sm) == sm.tag = "stream" /\ sm.state = NoneV /\ sm.fut = NoneV
\* The records a step handed to the consumer or left in the page in hand.
Delivered(c) == (IF out'.value.tag = "record" THEN 1 ELSE 0) + Len(stream'[c].next)

\* C11: a page whose reported total is at most the cursor offset after it is
\* still yielded, all its records going to the consumer, and sets the end
\* flag without a request; from then on the stream sends no page request, and
\* the pull that finds the page's records consumed returns the end of the
\* sequence.
C11_LastPageDelivered ==
    /\ [][\A c \in Callers :
            (stream[c].tag = "stream" /\ stream[c].fut # NoneV /\ IsPage(page_received')
             /\ ReportedTotal(page_received') <= Cursor(stream[c]) + Records(page_received'.rows))
            => /\ pages'[c] = Append(pages[c], Records(page_received'.rows))
               /\ Delivered(c) = Records(page_received'.rows)
               /\ (Records(page_received'.rows) > 0 => out'.value.tag = "record")
               /\ DataRequests(sent') = <<>>
               /\ (EndFlagSet(stream'[c]) \/ Finished(stream'[c]))]_vars
    /\ [][\A c \in Callers :
            ((EndFlagSet(stream[c]) \/ Finished(stream[c])) /\ stream'[c].tag = "stream")
            => /\ DataRequests(sent') = <<>>
               /\ page_requests' = page_requests
               /\ stream'[c].fut = NoneV
               /\ stream[c].next = <<>> => (out' = Output(c, End) /\ Finished(stream'[c]))]_vars

\* The pull after a page of two records with Record-Total 2 was consumed
\* returns the end of the sequence and sends nothing.
C11_Witness ==
    \E c \in Callers :
       /\ pages[c] = << 2 >> /\ Finished(stream[c]) /\ stream[c].next = <<>>
       /\ out = Output(c, End) /\ page_received.kind = "none"
       /\ sent = <<>> /\ page_requests = 1

\* The stream ends in this step.
Ends(c) == stream[c].tag = "stream" /\ ~Finished(stream[c]) /\ Finished(stream'[c])
LastTotal(c) == totals[c][Len(totals[c])]

\* C12, as stated: the cursor offset is the sum of the records yielded, a
\* stream that has ended after a page has a last reported total that is at
\* most that sum, and a stream whose last reported total is at most that sum
\* is ending.
C12_EndsExactlyByTotal ==
    \A c \in Callers :
       /\ HasCursor(stream[c]) => Cursor(stream[c]) = Sum(pages[c])
       /\ (Finished(stream[c]) /\ totals[c] # <<>>) => LastTotal(c) <= Sum(pages[c])
       /\ (stream[c].tag = "stream" /\ totals[c] # <<>> /\ LastTotal(c) <= Sum(pages[c]))
          => (EndFlagSet(stream[c]) \/ Finished(stream[c]))

\* C12, amended: in the step that ends a stream the cursor offset is the sum
\* of the records yielded; the step either consumes a response that is not a
\* page (a failed request, a status other than 200, a body that cannot be
\* read) or finds the last reported total at most that sum and returns the
\* end of the sequence; and a stream whose last reported total is at most the
\* sum of the records yielded has its end flag set or is over.
C12_EndsByTotalOrNoPage ==
    /\ [][\A c \in Callers :
            Ends(c)
            => /\ HasCursor(stream[c])
               /\ Cursor(stream[c]) + (IF IsPage(page_received')
                                       THEN Records(page_received'.rows) ELSE 0)
                    = Sum(pages'[c])
               /\ \/ page_received'.kind # "none" /\ ~IsPage(page_received')
                  \/ /\ totals'[c] # <<>>
                     /\ totals'[c][Len(totals'[c])] <= Sum(pages'[c])
                     /\ out' = Output(c, End)]_vars
    /\ [](\A c \in Callers :
            (stream[c].tag = "stream" /\ totals[c] # <<>> /\ LastTotal(c) <= Sum(pages[c]))
            => (EndFlagSet(stream[c]) \/ Finished(stream[c])))

\* A stream has ended by the total: two pages of one record each, both
\* reporting the total 2, and then the end of the sequence on a pull.
C12_Witness ==
    \E c \in Callers :
       /\ pages[c] = << 1, 1 >> /\ totals[c] = << 2, 2 >>
       /\ Finished(stream[c]) /\ out = Output(c, End) /\ page_received.kind = "none"

\* StatusCode::is_success: the 2xx statuses.
IsSuccess(status) == status \in 200..299
\* The response a step consumed is a success that is not a 200.
IsNoContent(resp) == resp.kind = "http" /\ IsSuccess(resp.status) /\ resp.status # StatusOK

\* C13: a successful response with a status other than 200 ends the stream
\* in the step that consumes it: the consumer gets the end of the sequence
\* and no error, no page is added to those yielded, no request is sent, no
\* record of an earlier page is left undelivered, and the stream is over.
C13_NoContentEndsCleanly ==
    [][\A c \in Callers :
          (stream[c].tag = "stream" /\ stream[c].fut # NoneV /\ IsNoContent(page_received'))
          => /\ out' = Output(c, End)
             /\ pages' = pages
             /\ sent' = <<>>
             /\ page_requests' = page_requests
             /\ stream[c].next = <<>> /\ stream'[c].next = <<>>
             /\ Finished(stream'[c])]_vars

\* Page 1 had Record-Total 2 and one record, which was delivered; the request
\* at offset 1 was answered with 204 and the stream ended without an error.
C13_Witness ==
    \E c \in Callers :
       /\ pages[c] = << 1 >> /\ totals[c] = << 2 >>
       /\ page_received.kind = "http" /\ page_received.status = 204
       /\ out = Output(c, End) /\ Finished(stream[c]) /\ stream[c].next = <<>>
       /\ page_requests = 2

\* C14: a response with a status outside 2xx gives the consumer an error
\* element; a response that ends the sequence without being a page is a
\* success with a status other than 200; and a record is handed over only
\* from a 200 with a body.
C14_NonSuccessIsError ==
    \A c \in Callers :
       (out.caller = c /\ page_received.kind = "http")
       => /\ ~IsSuccess(page_received.status) => out.value.tag = "Err"
          /\ (out.value = End /\ ~IsPage(page_received)) => IsNoContent(page_received)
          /\ out.value.tag = "record" => IsPage(page_received)

\* The Record-Total headers that carry no unsigned integer.
NoTotal(h) == h = NoHeader \/ h = Header(<<"x">>)

\* C15: a 200 page without a Record-Total header, or with one that is not an
\* unsigned integer, is read as reporting the total 0: the page is yielded
\* with all its records, no request is sent, and the stream has its end flag
\* set or is over, whatever the page's record count and the offset; and a
\* stream whose last page reported 0 has no request in flight.
C15_MissingTotalIsZero ==
    /\ [][\A c \in Callers :
            (stream[c].tag = "stream" /\ stream[c].fut # NoneV /\ IsPage(page_received')
             /\ NoTotal(page_received'.record_total))
            => /\ totals'[c] = Append(totals[c], 0)
               /\ pages'[c] = Append(pages[c], Records(page_received'.rows))
               /\ Delivered(c) = Records(page_received'.rows)
               /\ sent' = <<>>
               /\ page_requests' = page_requests
               /\ (EndFlagSet(stream'[c]) \/ Finished(stream'[c]))]_vars
    /\ [](\A c \in Callers :
            (stream[c].tag = "stream" /\ totals[c] # <<>> /\ LastTotal(c) = 0)
            => (stream[c].fut = NoneV /\ (EndFlagSet(stream[c]) \/ Finished(stream[c]))))

\* A second page of two records came without the header, at offset 1: its
\* first record is handed over and the end flag is set.
C15_Witness ==
    \E c \in Callers :
       /\ IsPage(page_received) /\ page_received.record_total = NoHeader
       /\ page_received.rows = << "record", "record" >>
       /\ pages[c] = << 1, 2 >> /\ totals[c] = << 2, 0 >>
       /\ out.value.tag = "record" /\ EndFlagSet(stream[c]) /\ sent = <<>>

\* The page request failed: no response came, or one with an error status.
IsFailure(resp) ==
    \/ resp.kind = "transport_error"
    \/ resp.kind = "http" /\ resp.status \in 400..599

\* C16: a failed page request gives the consumer one error element in the
\* step that consumes the failure, with no record of an earlier page left
\* undelivered, no page added and nothing sent, and leaves the stream over;
\* a stream that is over answers every pull with the end of the sequence and
\* sends nothing.
C16_ErrorThenEnd ==
    /\ [][\A c \in Callers :
            (stream[c].tag = "stream" /\ stream[c].fut # NoneV /\ IsFailure(page_received'))
            => /\ out' = Output(c, Err(HttpError))
               /\ stream[c].next = <<>> /\ stream'[c].next = <<>>
               /\ pages' = pages
               /\ sent' = <<>>
               /\ page_requests' = page_requests
               /\ Finished(stream'[c])]_vars
    /\ [][\A c \in Callers :
            (Finished(stream[c]) /\ stream'[c].tag = "stream")
            => /\ out' = Output(c, End)
               /\ sent' = <<>>
               /\ page_requests' = page_requests
               /\ stream'[c] = stream[c]]_vars

\* The first page's record was delivered and the second request failed with
\* a 404: the consumer holds the error and the stream is over.
C16_Witness ==
    \E c \in Callers :
       /\ pages[c] = << 1 >> /\ page_requests = 2
       /\ page_received.kind = "http" /\ page_received.status = 404
       /\ out = Output(c, Err(HttpError)) /\ Finished(stream[c])

\* C17: a stream is created with no page request sent; a step sends at most
\* one page request, and only as part of a consumer's pull that is left
\* pending with no record of the current page undelivered (the pull itself,
\* or its continuation when the page just received held no record); the
\* stream had no other request in flight; the request is the one after the
\* pages yielded so far, and the last of them, if any, reported a total above
\* the cursor offset (its end flag is false); and a step that is not part of
\* a pull sends nothing.
C17_RequestsOnDemand ==
    /\ (page_requests = 0 /\ DataRequests(sent) = <<>>
        /\ \A c \in Callers : stream[c].tag = "stream" => stream[c].fut = NoneV)
    /\ [][/\ Len(DataRequests(sent')) <= 1
          /\ page_requests' = page_requests + Len(DataRequests(sent'))
          /\ DataRequests(sent') # <<>>
             => \E c \in Callers :
                   /\ stream[c].tag = "stream" /\ stream'[c].tag = "stream"
                   /\ out' = Output(c, Pending)
                   /\ stream'[c].next = <<>>
                   /\ stream'[c].fut # NoneV
                   /\ \/ page_received'.kind = "none" /\ stream[c].fut = NoneV
                         /\ stream[c].next = <<>>
                      \/ IsPage(page_received') /\ stream[c].fut # NoneV
                         /\ Records(page_received'.rows) = 0
                   /\ page_requests' = Len(pages'[c]) + 1
                   /\ (totals'[c] = <<>>
                       \/ totals'[c][Len(totals'[c])] > Sum(pages'[c]))
          /\ (\A c \in Callers : out'.caller # c) => sent' = <<>>]_vars

\* The second request goes out on the pull that follows the delivery of the
\* first page's only record, that page having reported the total 2.
C17_Witness ==
    \E c \in Callers :
       /\ page_requests = 2 /\ DataRequests(sent) # <<>>
       /\ pages[c] = << 1 >> /\ totals[c] = << 2 >>
       /\ out = Output(c, Pending) /\ page_received.kind = "none"

\* The keys of a serialized request body, and the value under a key.
Keys(body) == { body.entries[i][1] : i \in 1..Len(body.entries) }
ValueOf(body, key) ==
    body.entries[CHOOSE i \in 1..Len(body.entries) : body.entries[i][1] = key][2]
\* The query of the request a stream has in flight.
InFlight(sm) == sm.fut.some.query

\* C18: the body of every page request holds the key dateRangeFilters
\* exactly when the query's date_range is Some, compareFilters exactly when
\* its symbol is Some, fields exactly when its fields is Some, each once
\* (a None is left out, not written as null or as an empty value), and
\* always limit and offset, once each, with the query's limit and the
\* cursor's offset; it holds no other key.
C18_BodyKeys ==
    \A c \in Callers :
       (stream[c].tag = "stream" /\ stream[c].fut # NoneV /\ DataRequests(sent) # <<>>)
       => LET body == sent[1].body
              q == InFlight(stream[c])
          IN  /\ ("dateRangeFilters" \in Keys(body)) <=> (q.date_range # NoneV)
              /\ ("compareFilters" \in Keys(body)) <=> (q.symbol # NoneV)
              /\ ("fields" \in Keys(body)) <=> (q.fields # NoneV)
              /\ Keys(body) \subseteq
                    {"fields", "dateRangeFilters", "compareFilters", "limit", "offset"}
              /\ Cardinality(Keys(body)) = Len(body.entries)
              /\ {"limit", "offset"} \subseteq Keys(body)
              /\ ValueOf(body, "limit") = MAX_RESULTS_PER_PAGE
              /\ ValueOf(body, "offset") = Sum(pages[c])

\* A query with fields only is asked for its second page: the body holds
\* fields, limit and offset 1 and neither filter.
C18_Witness ==
    \E c \in Callers :
       /\ stream[c].tag = "stream" /\ stream[c].fut # NoneV /\ DataRequests(sent) # <<>>
       /\ InFlight(stream[c]).date_range = NoneV /\ InFlight(stream[c]).symbol = NoneV
       /\ InFlight(stream[c]).fields # NoneV
       /\ Keys(sent[1].body) = {"fields", "limit", "offset"}
       /\ ValueOf(sent[1].body, "offset") = 1

\* The login response the last step consumed was a 200 with a JSON body.
Json200(resp) == resp.kind = "http" /\ resp.status = StatusOK /\ resp.body = "json"
\* What authentication answers to the same response with one field replaced.
WithExpiresIn(resp, v) == _authenticate_client([resp EXCEPT !.expires_in = v])
WithAccessToken(resp, v) == _authenticate_client([resp EXCEPT !.access_token = v])

\* C19: on a 200 login response, an expires_in or access_token that is
\* missing or is not a string makes get_client return a CannotLogin error;
\* the error for a missing field differs from the error the same response
\* gets with that field present but not a string; and an expires_in string
\* that is no integer gets an error that differs from both.
C19_DistinctReasons ==
    (Json200(received) /\ returned # NoCaller)
    => /\ (received.expires_in.json # "string" \/ received.access_token.json # "string")
          => (result.tag = "Err" /\ result.error.err = "CannotLogin")
       /\ received.expires_in = Absent
          => result # WithExpiresIn(received, JNumber(1))
       /\ (received.expires_in \in GoodExpiresIn /\ received.access_token = Absent)
          => result # WithAccessToken(received, JNumber(7))
       /\ (received.expires_in.json = "string" /\ received.expires_in \notin GoodExpiresIn)
          => /\ result.tag = "Err" /\ result.error.err = "CannotLogin"
             /\ result # WithExpiresIn(received, JNumber(1))
             /\ result # WithExpiresIn(received, Absent)

\* The pages a stream yielded before the last one.
Front(seq) == SubSeq(seq, 1, Len(seq) - 1)

\* C20: a page request a stream sends after a page carries an offset above
\* the offset of the request that page answered (the sum of the record counts
\* of the pages before it): no two requests of a stream carry the same
\* offset.
C20_OffsetsIncrease ==
    \A c \in Callers :
       (stream[c].tag = "stream" /\ stream[c].fut # NoneV
        /\ DataRequests(sent) # <<>> /\ pages[c] # <<>>)
       => RequestOffset(sent[1]) > Sum(Front(pages[c]))

\* C21: when get_client returns Ok, ensure_authenticated having succeeded,
\* the ClientState is Authenticated and the value returned is its client,
\* not None; and no call of consolidated_short_interest is answered with
\* CannotConstructHttpClient.
C21_ClientAfterAuthentication ==
    /\ (returned # NoCaller /\ result.tag = "Ok")
       => /\ clg.tag = "Authenticated"
          /\ result.value # NoClient
          /\ result.value = clg.client
    /\ (out.caller # NoCaller /\ out.value.tag = "Err")
       => out.value.error # CannotConstructHttpClient

\* The second caller, which waited for the Mutex while the first
\* authenticated, is handed a stream on the cached client.
C21_Witness ==
    /\ returned = 2 /\ result.tag = "Ok" /\ result.value = clg.client
    /\ out = Output(2, Stream) /\ clg.tag = "Authenticated" /\ calls >= 2

\* The client handle in the PagerState a stream holds, in its unfold or in
\* the request in flight.
StreamClient(sm) ==
    IF sm.state # NoneV THEN sm.state.some.client ELSE sm.fut.some.client
\* This step is a pull of caller c's stream or the continuation of one.
FetchStep(c) ==
    /\ stream[c].tag = "stream" /\ stream'[c].tag = "stream"
    /\ out'.caller = c /\ out'.value # Stream
\* A fetch of pages uses the client the stream was made with, stays away from
\* the Mutex and the token endpoint and leaves the ClientState alone.
FetchFrame ==
    /\ [][\A c \in Callers :
            (out' = Output(c, Stream) /\ stream'[c].tag = "stream")
            => /\ StreamClient(stream'[c]) = result'.value
               /\ DataRequests(sent') = <<>>]_vars
    /\ [][\A c \in Callers :
            FetchStep(c)
            => /\ clg' = clg
               /\ holder' = holder /\ waiters' = waiters /\ pc' = pc
               /\ attempt' = attempt
               /\ TokenRequests(sent') = <<>>
               /\ factory_invoked' = 0 /\ clients_built' = clients_built
               /\ HasCursor(stream[c])
                  => /\ \A i \in 1..Len(sent') : sent'[i].client = StreamClient(stream[c])
                     /\ HasCursor(stream'[c])
                        => StreamClient(stream'[c]) = StreamClient(stream[c])]_vars
    /\ [](holder # NoCaller => pc[holder] \in {"locked", "await_login"})

\* C22, as stated: a stream's page requests all go out on the client the
\* stream was created with, a fetch takes no Mutex, sends no token request,
\* builds no client and leaves the ClientState unchanged, the Mutex is held
\* only by a caller inside get_client, and the Mutex is free whenever a page
\* request is in flight.
C22_LockFreeWhileFetching ==
    /\ FetchFrame
    /\ [](\A c \in Callers :
            (stream[c].tag = "stream" /\ stream[c].fut # NoneV) => holder = NoCaller)

\* C22, amended: as stated, but whenever a page request is in flight the
\* Mutex is not held by that stream's consumer: it is free, or held by
\* another caller inside get_client.
C22_FetchLeavesCacheAlone ==
    /\ FetchFrame
    /\ [](\A c \in Callers :
            (stream[c].tag = "stream" /\ stream[c].fut # NoneV)
            => /\ holder # c
               /\ pc[c] = "idle"
               /\ holder # NoCaller => pc[holder] \in {"locked", "await_login"})

\* Caller 1's stream, made with client 1, sends a page request on client 1
\* after valid_until has passed and another caller has renewed the
\* credential: the cache holds client 2.
C22_Witness ==
    /\ stream[1].tag = "stream" /\ stream[1].fut # NoneV
    /\ DataRequests(sent) # <<>> /\ sent[1].client = 1
    /\ clg.tag = "Authenticated" /\ clg.client = 2 /\ ~(now < 1)

====
